---- MODULE Spec2Model ----
(***************************************************************************)
(* A model of generate_app_icons.py: the IconGenerator pipeline (main,     *)
(* __init__, detect_svg_converter, run and the per-platform generators),   *)
(* and the integer image arithmetic of the three compositing methods       *)
(* (resize dimensions, paste position, per-pixel recolor).                 *)
(***************************************************************************)
EXTENDS Integers, Sequences, FiniteSets, TLC

VARIABLES
  img,               \* the image a compositing method is working on
  res,               \* a colors.xml create_background_resources is applied to
  pc,                \* position in main / __init__ / run
  argv,              \* sys.argv[1], "" when no argument is given
  svg,               \* the file at svg_path
  avail,             \* converter -> its version check command succeeds
  probed,            \* the converters detect_svg_converter has probed, in order
  svg_converter,     \* self.svg_converter, "unset" before it is assigned
  background_color,  \* self.background_color, << >> before it is assigned
  dirs,              \* the directories that exist
  temp_files,        \* the names of the files in temp_icons
  png,               \* output PNG path -> its pixels
  colors_xml,        \* android res values/colors.xml
  files,             \* the other files written (XML, desktop entry, SVG copies)
  launch_bg,         \* drawable dir -> its launch_background.xml
  log,               \* the calls, writes, prints and raises so far, in order
  exc,               \* the exception in flight, "none" when there is none
  exit_status,       \* the status the process exited with, -1 while it runs
  idx,               \* the index of the current loop
  temp_pinned        \* the parent of temp_icons does not permit removing it

fsvars == <<dirs, temp_files, png, colors_xml, files, launch_bg>>

pipevars == <<pc, argv, svg, avail, probed, svg_converter, background_color,
              dirs, temp_files, png, colors_xml, files, launch_bg, log, exc,
              exit_status, idx, temp_pinned>>

vars == <<img, res, pipevars>>


\* ------------------------------------------------------------------------
\* Bounds of the model (not program constants)
\* ------------------------------------------------------------------------

\* content widths/heights 1..MaxDim are tried next to the extreme ones
MaxDim == 10

\* number of pixels of a sampled canvas
CanvasLen == 2

\* number of entries between the header and the end of a sampled colors.xml
MaxEntries == 2

\* ------------------------------------------------------------------------
\* Configuration (module level constants of the script)
\* ------------------------------------------------------------------------

\* ICON_SCALE = 0.45, as a percentage
ICON_SCALE_PCT == 45

\* ICON_OFFSET_X = 0.03, as a percentage
ICON_OFFSET_X_PCT == 3

\* the factor 0.8 of create_notification_icon, as a percentage
NOTIF_SCALE_PCT == 80

\* the colour used when no fill is extracted; colour strings are sequences
\* of characters
DEFAULT_BACKGROUND == <<"#", "3", "A", "7", "B", "E", "0">>

DEFAULT_SVG == "assets/icons/nhac.svg"

android_res == "android/app/src/main/res"

linux_icons == "linux/icons"

macos_assets == "macos/Runner/Assets.xcassets/AppIcon.appiconset"

temp_dir == "temp_icons"

\* ANDROID_SIZES, in the dict's iteration (insertion) order
AndroidOrder == <<"mdpi", "hdpi", "xhdpi", "xxhdpi", "xxxhdpi">>

ANDROID_SIZES ==
  [mdpi |-> 108, hdpi |-> 162, xhdpi |-> 216, xxhdpi |-> 324, xxxhdpi |-> 432]

\* notification_sizes of create_notification_icon, keyed by density
notification_sizes ==
  [mdpi |-> 24, hdpi |-> 36, xhdpi |-> 48, xxhdpi |-> 72, xxxhdpi |-> 96]

LINUX_SIZES == <<64, 128, 256, 512>>

MACOS_SIZES == <<16, 32, 64, 128, 256, 512, 1024>>

\* ------------------------------------------------------------------------
\* Float arithmetic of the resize, in integers
\* ------------------------------------------------------------------------
\* Python computes aspect = w / h, target_size / aspect and
\* target_size * aspect in IEEE-754 doubles (53 bit significand, round to
\* nearest even) and truncates with int().  The operators below give the
\* same integers: the truncated result is the exact floor unless the exact
\* quotient is an integer q and the two roundings leave the double strictly
\* below q, in which case int() yields q - 1.

RECURSIVE Pow2(_)
Pow2(n) == IF n <= 0 THEN 1 ELSE 2 * Pow2(n - 1)

\* 2^e mod h
RECURSIVE Pow2Mod(_, _)
Pow2Mod(e, h) == IF e = 0 THEN 1 % h ELSE (2 * Pow2Mod(e - 1, h)) % h

\* floor(log2(n)) for n >= 1
RECURSIVE ILog2(_)
ILog2(n) == IF n < 2 THEN 0 ELSE 1 + ILog2(n \div 2)

\* e + 1 where half the gap between the double q and its predecessor
\* is 2^(e - 53): the gap halves below a power of two
BelowExp1(q) == IF q = Pow2(ILog2(q)) THEN ILog2(q) ELSE ILog2(q) + 1

\* for w > h: the p >= 0 with 2^p <= w/h < 2^(p+1)
RECURSIVE BinExpUp(_, _)
BinExpUp(w, h) == IF w < 2 * h THEN 0 ELSE 1 + BinExpUp(w, 2 * h)

\* for w < h: the n >= 1 with 2^(-n) <= w/h < 2^(1-n)
RECURSIVE BinExpDown(_, _)
BinExpDown(w, h) == IF 2 * w >= h THEN 1 ELSE 1 + BinExpDown(2 * w, h)

\* int(t / (w / h)) for w > h
IntDivAspect(t, w, h) ==
  LET q == (t * h) \div w
      p == BinExpUp(w, h)
      r == (w * Pow2Mod(52 - p, h)) % h
  IN  IF (t * h) % w # 0 \/ q = 0 THEN q
      ELSE IF 2 * r > h /\ q * (h - r) * Pow2(p + 2) > Pow2(BelowExp1(q)) * w
           THEN q - 1
           ELSE q

\* int(t * (w / h)) for w <= h
IntMulAspect(t, w, h) ==
  LET q == (t * w) \div h
      n == BinExpDown(w, h)
      r == (w * Pow2Mod(52 + n, h)) % h
  IN  IF (t * w) % h # 0 \/ q = 0 \/ w = h THEN q
      ELSE IF r # 0 /\ 2 * r < h /\ 2 * t * r > Pow2(BelowExp1(q) + n - 1) * h
           THEN q - 1
           ELSE q

\* ------------------------------------------------------------------------
\* Resize dimensions and paste position
\* ------------------------------------------------------------------------

\* int(size * ICON_SCALE): the double 0.45 lies above 45/100 by less than
\* 2^-54, so the truncated product is the exact floor (48, 72, 97, 145,
\* 194 for ANDROID_SIZES)
IconTargetSize(size) == (size * ICON_SCALE_PCT) \div 100

\* int(size * 0.8): the exact floor as well (19, 28, 38, 57, 76 for
\* notification_sizes)
NotifTargetSize(size) == (size * NOTIF_SCALE_PCT) \div 100

\* int(size * ICON_OFFSET_X): the exact floor as well (3, 4, 6, 9, 12 for
\* ANDROID_SIZES)
IconOffsetX(size) == (size * ICON_OFFSET_X_PCT) \div 100

\* (new_w, new_h) of the "if aspect > 1 ... else ..." block, which is the
\* same in the three compositing methods
NewDims(target_size, w, h) ==
  IF w > h
    THEN <<target_size, IntDivAspect(target_size, w, h)>>
    ELSE <<IntMulAspect(target_size, w, h), target_size>>

\* paste position of create_notification_icon
NotifPastePos(size, new_w, new_h) ==
  <<(size - new_w) \div 2, (size - new_h) \div 2>>

\* a paste position that forgets the horizontal offset
IconPastePosNoOffset(size, new_w, new_h) ==
  <<(size - new_w) \div 2, (size - new_h) \div 2>>

\* paste position of create_white_foreground / create_monochrome_icon
IconPastePos(size, new_w, new_h) ==
  <<(size - new_w) \div 2 + IconOffsetX(size), (size - new_h) \div 2>>

\* ------------------------------------------------------------------------
\* Per-pixel recolor
\* ------------------------------------------------------------------------

Pixel(r, g, b, a) == [r |-> r, g |-> g, b |-> b, a |-> a]

\* a white-out that makes every visible pixel fully opaque
WhitePixelOpaque(p) == IF p.a > 0 THEN Pixel(255, 255, 255, 255) ELSE p

\* the pixel loop of create_white_foreground and create_notification_icon:
\* data is modified in place, pixels with a = 0 are left as they are
WhitePixel(p) == IF p.a > 0 THEN Pixel(255, 255, 255, p.a) ELSE p

WhiteOut(data) == [i \in DOMAIN data |-> WhitePixel(data[i])]

\* the pixel loop of create_monochrome_icon: mono_data starts as zeros
MonoPixel(p) == IF p.a > 0 THEN Pixel(0, 0, 0, p.a) ELSE Pixel(0, 0, 0, 0)

MonoOut(data) == [i \in DOMAIN data |-> MonoPixel(data[i])]

\* ------------------------------------------------------------------------
\* The compositing methods on a single image (crop -> resize -> paste ->
\* recolor), with the inputs drawn from bounded sets
\* ------------------------------------------------------------------------

Methods == {"create_white_foreground", "create_monochrome_icon",
            "create_notification_icon"}

Densities == {AndroidOrder[k] : k \in DOMAIN AndroidOrder}

\* the canvas size a method works at for a density
MethodSize(method, density) ==
  IF method = "create_notification_icon"
    THEN notification_sizes[density]
    ELSE ANDROID_SIZES[density]

\* target_size of a method
MethodTarget(method, size) ==
  IF method = "create_notification_icon"
    THEN NotifTargetSize(size)
    ELSE IconTargetSize(size)

\* (x, y) of a method
MethodPastePos(method, size, new_w, new_h) ==
  IF method = "create_notification_icon"
    THEN NotifPastePos(size, new_w, new_h)
    ELSE IconPastePos(size, new_w, new_h)

\* the recolored array a method saves
MethodRecolor(method, data) ==
  IF method = "create_monochrome_icon" THEN MonoOut(data) ELSE WhiteOut(data)

\* Widths and heights of the cropped content that are tried: the SVG is
\* rasterized at int(size * 2), so the bounding box is at most 2 * size
\* wide and high.
ContentDimSamples(size) == (1 .. MaxDim) \cup {2 * size - 1, 2 * size}

\* Pixels a composed canvas may hold.  Where the paste mask is 0 the canvas
\* keeps (0, 0, 0, 0); a mask of 1 can leave colour with alpha rounded to 0.
PixelSamples ==
  { Pixel(0, 0, 0, 0), Pixel(1, 1, 1, 0), Pixel(58, 123, 224, 255),
    Pixel(58, 123, 224, 64), Pixel(255, 255, 255, 1) }

CanvasSamples == [1 .. CanvasLen -> PixelSamples]

NoCanvas == << >>

\* content = img.crop(bbox); w, h = content.size
InitImage ==
  \E method \in Methods, density \in Densities :
    \E w \in ContentDimSamples(MethodSize(method, density)),
       h \in ContentDimSamples(MethodSize(method, density)) :
      img = [ at |-> "cropped", method |-> method,
              size |-> MethodSize(method, density),
              w |-> w, h |-> h, target_size |-> 0, new_w |-> 0, new_h |-> 0,
              x |-> 0, y |-> 0, canvas |-> NoCanvas, data |-> NoCanvas ]

\* aspect, target_size, new_w, new_h and content.resize((new_w, new_h)):
\* Pillow's resize raises ValueError when a side is below 1
Resize ==
  /\ img.at = "cropped"
  /\ LET t == MethodTarget(img.method, img.size)
         d == NewDims(t, img.w, img.h)
     IN  img' = [img EXCEPT !.target_size = t, !.new_w = d[1], !.new_h = d[2],
                            !.at = IF d[1] < 1 \/ d[2] < 1
                                     THEN "ValueError" ELSE "resized"]

\* canvas = Image.new(...); x, y; canvas.paste(content, (x, y), content)
Paste ==
  /\ img.at = "resized"
  /\ \E canvas \in CanvasSamples :
       LET pos == MethodPastePos(img.method, img.size, img.new_w, img.new_h)
       IN  img' = [img EXCEPT !.x = pos[1], !.y = pos[2],
                              !.canvas = canvas, !.at = "pasted"]

\* data = np.array(canvas); the pixel loop; result.save(output_path)
Recolor ==
  /\ img.at = "pasted"
  /\ img' = [img EXCEPT !.data = MethodRecolor(img.method, img.canvas),
                        !.at = "saved"]

\* the image of the state in which no compositing experiment is running
IdleImage ==
  [ at |-> "idle", method |-> "", size |-> 0, w |-> 0, h |-> 0,
    target_size |-> 0, new_w |-> 0, new_h |-> 0, x |-> 0, y |-> 0,
    canvas |-> NoCanvas, data |-> NoCanvas ]

\* ------------------------------------------------------------------------
\* Strings, paths and the log
\* ------------------------------------------------------------------------

Join(dir, name) == dir \o "/" \o name

MipmapDir(density) == Join(android_res, "mipmap-" \o density)

DrawableDir(density) == Join(android_res, "drawable-" \o density)

ForegroundPath(density) == Join(MipmapDir(density), "ic_launcher_foreground.png")

MonochromePath(density) == Join(MipmapDir(density), "ic_launcher_monochrome.png")

NotificationPath(density) == Join(DrawableDir(density), "ic_notification.png")

LinuxPath(size) == Join(linux_icons, "nhac-" \o ToString(size) \o ".png")

FlatpakPath(size) == Join(linux_icons, "dev.myyc.nhac-" \o ToString(size) \o ".png")

MacosPath(size) == Join(macos_assets, "app_icon_" \o ToString(size) \o ".png")

\* temp_output of convert_svg_to_png_native
TempRender(size) == "temp_" \o ToString(size) \o ".png"

ColorsPath == Join(Join(android_res, "values"), "colors.xml")

DesktopPath == "linux/nhac.desktop"

AnydpiDirs == <<"mipmap-anydpi-v26", "mipmap-anydpi-v33">>

LaunchDirs == <<"drawable", "drawable-v21">>

\* log entries
EvCall(name) == <<"call", name, "">>

EvReturn(name) == <<"return", name, "">>

EvRaise(name, what) == <<"raise", name, what>>

EvWrite(path) == <<"write", path, "">>

EvOut(topic, text) == <<"print", topic, text>>

\* ------------------------------------------------------------------------
\* extract_svg_color
\* ------------------------------------------------------------------------

HexChars == {"0", "1", "2", "3", "4", "5", "6", "7", "8", "9",
             "a", "b", "c", "d", "e", "f", "A", "B", "C", "D", "E", "F"}

\* str.upper() on one character of a colour
UpperChar(c) ==
  CASE c = "a" -> "A" [] c = "b" -> "B" [] c = "c" -> "C"
    [] c = "d" -> "D" [] c = "e" -> "E" [] c = "f" -> "F"
    [] OTHER -> c

Upper(str) == [i \in DOMAIN str |-> UpperChar(str[i])]

HexDigit(d) ==
  <<"0", "1", "2", "3", "4", "5", "6", "7", "8", "9",
    "A", "B", "C", "D", "E", "F">>[d + 1]

\* format(n, "X")
RECURSIVE HexStr(_)
HexStr(n) ==
  IF n < 16 THEN <<HexDigit(n)>> ELSE Append(HexStr(n \div 16), HexDigit(n % 16))

\* format(n, "02X"): at least two digits, more when n > 255
Hex02X(n) == IF n < 16 THEN <<"0">> \o HexStr(n) ELSE HexStr(n)

\* the text starts with # and six hex digits
StartsWithHex6(text) ==
  /\ Len(text) >= 7
  /\ text[1] = "#"
  /\ \A i \in 2 .. 7 : text[i] \in HexChars

\* the characters \s matches in a str pattern: every Unicode white space.
\* A character that a string here cannot hold is named by its code point.
WhiteSpace ==
  { "\t", "\n", "U+000B", "\f", "\r", "U+001C", "U+001D", "U+001E", "U+001F",
    " ", "U+0085", "U+00A0", "U+1680", "U+2000", "U+2001", "U+2002",
    "U+2003", "U+2004", "U+2005", "U+2006", "U+2007", "U+2008", "U+2009",
    "U+200A", "U+2028", "U+2029", "U+202F", "U+205F", "U+3000" }

\* the characters of the class [:\s]
FillSepChars == {":"} \cup WhiteSpace

\* the characters of the class ["\']
QuoteChars == {"\"", "'"}

\* fill[:\s]*["\']? : the characters between "fill" and the colour are a
\* run, possibly empty, of ":" and white space, then at most one quote
FillPrefixMatches(sep) ==
  \/ \A i \in 1 .. Len(sep) : sep[i] \in FillSepChars
  \/ /\ Len(sep) >= 1
     /\ sep[Len(sep)] \in QuoteChars
     /\ \A i \in 1 .. Len(sep) - 1 : sep[i] \in FillSepChars

\* A fill declaration of the SVG text: sep holds the characters between
\* "fill" and the colour (<<":">> for CSS, <<"=", "\"">> for an attribute),
\* kind tells what follows.
HexMatches(decl) ==
  decl.kind = "hex" /\ FillPrefixMatches(decl.sep) /\ StartsWithHex6(decl.text)

RgbMatches(decl) == decl.kind = "rgb" /\ FillPrefixMatches(decl.sep)

\* re.search: index of the first declaration the hex pattern matches, 0
\* when there is none
FirstHexIndex(decls) ==
  IF \E i \in DOMAIN decls : HexMatches(decls[i])
    THEN CHOOSE i \in DOMAIN decls :
           HexMatches(decls[i]) /\ \A j \in 1 .. i - 1 : ~HexMatches(decls[j])
    ELSE 0

\* re.search: index of the first declaration the rgb pattern matches
FirstRgbIndex(decls) ==
  IF \E i \in DOMAIN decls : RgbMatches(decls[i])
    THEN CHOOSE i \in DOMAIN decls :
           RgbMatches(decls[i]) /\ \A j \in 1 .. i - 1 : ~RgbMatches(decls[j])
    ELSE 0

\* the value extract_svg_color returns, << >> for None
ExtractSvgColorValue(decls) ==
  LET hi == FirstHexIndex(decls)
      ri == FirstRgbIndex(decls)
  IN  IF hi # 0 THEN Upper(SubSeq(decls[hi].text, 1, 7))
      ELSE IF ri # 0
        THEN <<"#">> \o Hex02X(decls[ri].r) \o Hex02X(decls[ri].g)
                     \o Hex02X(decls[ri].b)
        ELSE << >>

\* ------------------------------------------------------------------------
\* The inputs of a run
\* ------------------------------------------------------------------------

HexDecl(sep, text) == [kind |-> "hex", sep |-> sep, text |-> text, r |-> 0, g |-> 0, b |-> 0]

RgbDecl(sep, r, g, b) == [kind |-> "rgb", sep |-> sep, text |-> << >>, r |-> r, g |-> g, b |-> b]

Transparent == Pixel(0, 0, 0, 0)

\* An SVG file: its fill declarations, the aspect ratio aw : ah of its
\* drawing, the side below which a render of it comes out fully
\* transparent (thin strokes get so little coverage that the mask paste of
\* convert_svg_to_png_native rounds every alpha to 0), the pixels of a
\* larger render (padded to a square) and the pixels of the canvas
\* composed from the cropped and resized render.
SvgFile(fills, aw, ah, faint_below, render, canvas) ==
  [exists |-> TRUE, fills |-> fills, aw |-> aw, ah |-> ah,
   faint_below |-> faint_below, render |-> render, canvas |-> canvas]

MissingSvg ==
  [exists |-> FALSE, fills |-> << >>, aw |-> 1, ah |-> 1, faint_below |-> 0,
   render |-> << >>, canvas |-> << >>]

\* the square image convert_svg_to_png_native(size, ...) saves
RenderAt(file, size) ==
  IF size < file.faint_below
    THEN [i \in DOMAIN file.render |-> Transparent]
    ELSE file.render

SvgSamples ==
  { \* a CSS hex fill in lower case, a square drawing
    SvgFile(<<HexDecl(<<":">>, <<"#", "3", "a", "7", "b", "e", "0">>)>>, 1, 1, 0,
            <<Pixel(58, 123, 224, 255), Transparent>>,
            <<Pixel(58, 123, 224, 255), Pixel(58, 123, 224, 64), Transparent>>),
    \* an attribute fill (not matched) and a CSS rgb() fill, a 9 : 7 drawing
    SvgFile(<<HexDecl(<<"=", "\"">>, <<"#", "0", "0", "F", "F", "0", "0">>),
              RgbDecl(<<":", " ">>, 255, 0, 0)>>, 9, 7, 0,
            <<Pixel(255, 0, 0, 255), Transparent>>,
            <<Pixel(255, 0, 0, 255), Transparent, Transparent>>),
    \* no fill at all, a hairline 500 times higher than wide
    SvgFile(<< >>, 1, 500, 0,
            <<Pixel(0, 0, 0, 255), Transparent>>,
            <<Pixel(0, 0, 0, 255), Transparent, Transparent>>),
    \* an out of range rgb() fill, ink so faint that resizing rounds every
    \* alpha to 0
    SvgFile(<<RgbDecl(<<" ">>, 300, 0, 0)>>, 1, 1, 0,
            <<Pixel(255, 0, 0, 1), Transparent>>,
            <<Pixel(1, 0, 0, 0), Transparent, Transparent>>),
    \* a drawing that renders fully transparent
    SvgFile(<<HexDecl(<<":", " ", "'">>, <<"#", "F", "F", "0", "0", "0", "0">>)>>,
            1, 1, 0,
            <<Transparent, Transparent>>,
            <<Transparent, Transparent, Transparent>>),
    \* a thin ring in black ink: a render of side below 100 is fully
    \* transparent, a larger one is not
    SvgFile(<< >>, 1, 1, 100,
            <<Pixel(0, 0, 0, 40), Transparent>>,
            <<Pixel(0, 0, 0, 40), Pixel(0, 0, 0, 7), Transparent>>) }

ConverterNames == {"rsvg-convert", "inkscape", "magick"}

\* img.getbbox() is None: the render has no pixel with a non-zero channel
\* (a Pillow that looks at alpha only agrees on every render sampled)
BBoxIsNone(render) ==
  \A i \in DOMAIN render :
    render[i].r = 0 /\ render[i].g = 0 /\ render[i].b = 0 /\ render[i].a = 0

Max(a, b) == IF a > b THEN a ELSE b

\* content.size: the converters keep the aspect ratio and fit the drawing
\* into render_size x render_size; the bounding box has at least one pixel
ContentDims(file, render_size) ==
  IF file.aw >= file.ah
    THEN <<render_size, Max(1, (render_size * file.ah) \div file.aw)>>
    ELSE <<Max(1, (render_size * file.aw) \div file.ah), render_size>>


\* ------------------------------------------------------------------------
\* values/colors.xml and launch_background.xml as token sequences
\* ------------------------------------------------------------------------

Tok(tag, name, value) == [tag |-> tag, name |-> name, value |-> value]

\* <?xml version="1.0" encoding="utf-8"?> and <resources>
HeaderTok == Tok("header", "", << >>)

\* </resources>
CloseTok == Tok("close", "", << >>)

\* <color name="NAME">VALUE</color>
ColorTok(name, value) == Tok("color", name, value)

\* the string a sequence of characters spells
RECURSIVE Flatten(_)
Flatten(chars) ==
  IF chars = << >> THEN "" ELSE Head(chars) \o Flatten(Tail(chars))

\* the text of a token in the file
TokText(tok) ==
  CASE tok.tag = "header" ->
         "<?xml version=\"1.0\" encoding=\"utf-8\"?>\n<resources>"
    [] tok.tag = "close" -> "</resources>"
    [] tok.tag = "color" ->
         "    <color name=\"" \o tok.name \o "\">" \o Flatten(tok.value)
           \o "</color>"
    [] OTHER -> tok.name \o Flatten(tok.value)

\* needle in text, for strings
InText(needle, text) ==
  \E k \in 0 .. Len(text) - Len(needle) :
    SubSeq(text, k + 1, k + Len(needle)) = needle

\* 'ic_launcher_background' in content, for the part of content the token
\* is: a substring test, true for any name or value that holds the text
MentionsLauncherBackground(tok) ==
  InText("ic_launcher_background", TokText(tok))

\* the token matches
\* <color name="ic_launcher_background">#[0-9A-Fa-f]{6}</color>
IsLauncherBackgroundEntry(tok) ==
  /\ tok.tag = "color"
  /\ tok.name = "ic_launcher_background"
  /\ Len(tok.value) = 7
  /\ StartsWithHex6(tok.value)

\* re.sub of the entry by one holding color
ReplaceEntries(content, color) ==
  [i \in DOMAIN content |->
     IF IsLauncherBackgroundEntry(content[i])
       THEN ColorTok("ic_launcher_background", color)
       ELSE content[i]]

\* content.replace('</resources>', entry + '</resources>')
RECURSIVE AddBeforeClose(_, _)
AddBeforeClose(content, color) ==
  IF content = << >> THEN << >>
  ELSE IF Head(content).tag = "close"
    THEN <<ColorTok("ic_launcher_background", color), Head(content)>>
           \o AddBeforeClose(Tail(content), color)
    ELSE <<Head(content)>> \o AddBeforeClose(Tail(content), color)

\* the content create_background_resources leaves in colors.xml
BackgroundResources(file, color) ==
  IF file.exists
    THEN IF \E i \in DOMAIN file.content :
              MentionsLauncherBackground(file.content[i])
           THEN ReplaceEntries(file.content, color)
           ELSE AddBeforeClose(file.content, color)
    ELSE <<HeaderTok, ColorTok("ic_launcher_background", color), CloseTok>>

\* self.background_color in content
ColorInContent(content, color) ==
  \E i \in DOMAIN content : InText(Flatten(color), TokText(content[i]))

AbsentFile == [exists |-> FALSE, content |-> << >>]

ExistingFile(content) == [exists |-> TRUE, content |-> content]

ColorsSamples ==
  { AbsentFile,
    ExistingFile(<<HeaderTok,
                   ColorTok("primary", <<"#", "1", "1", "2", "2", "3", "3">>),
                   CloseTok>>),
    ExistingFile(<<HeaderTok,
                   ColorTok("ic_launcher_background",
                            <<"#", "F", "F", "F", "F", "F", "F">>),
                   CloseTok>>),
    ExistingFile(<<HeaderTok,
                   ColorTok("ic_launcher_background", <<"#", "F", "F", "F">>),
                   CloseTok>>) }

\* android:drawable="PREFIX NAME", word: NAME matches \w+
DrawableRef(prefix, name, word) == [prefix |-> prefix, name |-> name, word |-> word]

TransparentRef == DrawableRef("@android:color/", "transparent", TRUE)

\* the two re.sub calls of create_launch_background
LaunchRefAfter(ref) ==
  IF ref.word /\ ref.prefix \in {"@android:color/", "?android:"}
    THEN TransparentRef
    ELSE ref

LaunchSamples ==
  { [d \in {"drawable", "drawable-v21"} |-> AbsentFile],
    [d \in {"drawable", "drawable-v21"} |->
       IF d = "drawable"
         THEN ExistingFile(<<DrawableRef("@android:color/", "white", TRUE),
                             DrawableRef("@mipmap/", "launch_image", TRUE)>>)
         ELSE ExistingFile(<<DrawableRef("?android:", "colorBackground", TRUE),
                             DrawableRef("?android:", "attr/windowBackground",
                                         FALSE)>>)] }

\* the value of res while create_background_resources is not tried on its own
IdleResources ==
  [ at |-> "idle", before |-> AbsentFile, color |-> << >>,
    after |-> << >>, again |-> << >> ]

\* ------------------------------------------------------------------------
\* verify_results
\* ------------------------------------------------------------------------

RECURSIVE SumSeq(_)
SumSeq(q) == IF q = << >> THEN 0 ELSE Head(q) + SumSeq(Tail(q))

\* data[mask] for mask = data[:, :, 3] > 0
Opaque(data) == SelectSeq(data, LAMBDA p : p.a > 0)

\* np.mean(pixels[:, :3]) > 250
IsWhite(pixels) ==
  SumSeq([i \in DOMAIN pixels |-> pixels[i].r + pixels[i].g + pixels[i].b])
    > 250 * 3 * Len(pixels)

\* the lines verify_results prints
VerifyReport(pngs, colors, color) ==
  LET fg == ForegroundPath("hdpi")
      mono == MonochromePath("hdpi")
      notif == NotificationPath("hdpi")
  IN  (IF fg \in DOMAIN pngs
         THEN IF Len(Opaque(pngs[fg])) > 0
                THEN <<EvOut("Foreground",
                             IF IsWhite(Opaque(pngs[fg]))
                               THEN "White" ELSE "Not white")>>
                ELSE <<EvOut("Foreground", "empty")>>
         ELSE << >>)
      \o (IF mono \in DOMAIN pngs
            THEN <<EvOut("Monochrome",
                         IF Len(Opaque(pngs[mono])) > 0 THEN "ok" ELSE "Empty")>>
            ELSE << >>)
      \o (IF notif \in DOMAIN pngs
            THEN <<EvOut("Notification icon", "Created")>>
            ELSE << >>)
      \o (IF colors.exists
            THEN <<EvOut("Background color",
                         IF ColorInContent(colors.content, color)
                           THEN "ok" ELSE "Not set correctly")>>
            ELSE << >>)


\* ------------------------------------------------------------------------
\* main, IconGenerator.__init__ and detect_svg_converter
\* ------------------------------------------------------------------------

\* self.svg_path
SvgPath == IF argv = "" THEN DEFAULT_SVG ELSE argv

\* What an earlier run or the user left at the path temp_icons: nothing, a
\* directory with a file, such a directory in a parent that does not permit
\* removing it, or a regular file of that name.
LeftoverKinds == {"none", "dir", "pinned", "file"}

\* the directories that exist before the run
InitialDirs(leftover, colors, launch) ==
  (IF leftover \in {"dir", "pinned"} THEN {temp_dir} ELSE {})
    \cup (IF colors.exists THEN {Join(android_res, "values")} ELSE {})
    \cup {Join(android_res, d) : d \in {e \in DOMAIN launch : launch[e].exists}}

Init ==
  /\ img = IdleImage
  /\ res = IdleResources
  /\ pc = "init"
  /\ argv \in {"", "art/icon.svg"}
  /\ svg \in SvgSamples \cup {MissingSvg}
  /\ avail \in [ConverterNames -> BOOLEAN]
  /\ probed = << >>
  /\ svg_converter = "unset"
  /\ background_color = << >>
  /\ \E leftover \in LeftoverKinds, colors \in ColorsSamples,
        launch \in LaunchSamples :
       /\ temp_files = IF leftover \in {"dir", "pinned"}
                         THEN {"stale.png"}
                         ELSE {}
       /\ temp_pinned = (leftover = "pinned")
       /\ files = IF leftover = "file"
                    THEN [path \in {temp_dir} |-> "stale"]
                    ELSE [path \in {} |-> ""]
       /\ colors_xml = colors
       /\ launch_bg = launch
       /\ dirs = InitialDirs(leftover, colors, launch)
  /\ png = [path \in {} |-> NoCanvas]
  /\ log = << >>
  /\ exc = "none"
  /\ exit_status = -1
  /\ idx = 0

\* orders of the calls with two stages exchanged
RunOrderLinuxFirst ==
  <<"setup", "generate_linux_icons", "generate_android_icons",
    "generate_macos_icons", "verify_results">>

RunOrderMacosFirst ==
  <<"setup", "generate_android_icons", "generate_macos_icons",
    "generate_linux_icons", "verify_results">>

\* the order of the calls in the try block of run
RunOrder ==
  <<"setup", "generate_android_icons", "generate_linux_icons",
    "generate_macos_icons", "verify_results">>

\* the position at which a method of run starts
StagePc(stage) ==
  CASE stage = "setup" -> "setup"
    [] stage = "generate_android_icons" -> "android_fg"
    [] stage = "generate_linux_icons" -> "linux_icon"
    [] stage = "generate_macos_icons" -> "macos_icon"
    [] stage = "verify_results" -> "verify"

\* the position after a method of run has returned
AfterStage(stage) ==
  LET k == CHOOSE i \in DOMAIN RunOrder : RunOrder[i] = stage
  IN  IF k < Len(RunOrder) THEN StagePc(RunOrder[k + 1]) ELSE "banner"

\* an __init__ without the existence check
InitCheckSvgAbsent ==
  /\ pc = "init"
  /\ pc' = "extract"
  /\ log' = log \o <<EvCall("__init__")>>
  /\ UNCHANGED <<argv, svg, avail, probed, svg_converter, background_color,
                 fsvars, exc, exit_status, idx, img, res, temp_pinned>>

\* __init__ up to the existence check
InitCheckSvg ==
  /\ pc = "init"
  /\ IF ~svg.exists
       THEN /\ pc' = "main_except"
            /\ exc' = "FileNotFoundError"
            /\ log' = log \o <<EvCall("__init__"),
                               EvRaise("__init__", "FileNotFoundError")>>
       ELSE /\ pc' = "extract"
            /\ exc' = exc
            /\ log' = log \o <<EvCall("__init__"), EvOut("Using SVG", SvgPath)>>
  /\ UNCHANGED <<argv, svg, avail, probed, svg_converter, background_color,
                 fsvars, exit_status, idx, img, res, temp_pinned>>

\* self.original_color, self.background_color; open() raises when the
\* file does not exist
ExtractSvgColor ==
  /\ pc = "extract"
  /\ IF ~svg.exists
       THEN /\ pc' = "main_except"
            /\ exc' = "FileNotFoundError"
            /\ background_color' = background_color
            /\ log' = log \o <<EvCall("extract_svg_color"),
                               EvRaise("extract_svg_color", "FileNotFoundError")>>
       ELSE /\ pc' = "detect"
            /\ exc' = exc
            /\ background_color' =
                 IF ExtractSvgColorValue(svg.fills) # << >>
                   THEN ExtractSvgColorValue(svg.fills)
                   ELSE DEFAULT_BACKGROUND
            /\ log' = log \o <<EvCall("extract_svg_color"),
                               EvReturn("extract_svg_color")>>
  /\ UNCHANGED <<argv, svg, avail, probed, svg_converter, fsvars,
                 exit_status, idx, img, res, temp_pinned>>

\* a priority list with the first two converters exchanged
ConvertersInkscapeFirst == <<"inkscape", "rsvg-convert", "magick">>

\* the priority list of detect_svg_converter
converters == <<"rsvg-convert", "inkscape", "magick">>

\* a check whose failure is not noticed
CheckAlwaysSucceeds(name) == TRUE

\* subprocess.run(check_cmd, capture_output=True, check=True) returns
\* without raising
CheckSucceeds(name) == avail[name]

\* one iteration of the loop of detect_svg_converter
DetectProbe ==
  /\ pc = "detect"
  /\ Len(probed) < Len(converters)
  /\ LET name == converters[Len(probed) + 1]
         entered == log \o (IF probed = << >>
                              THEN <<EvCall("detect_svg_converter")>>
                              ELSE << >>)
     IN  /\ probed' = Append(probed, name)
         /\ IF CheckSucceeds(name)
              THEN /\ svg_converter' = name
                   /\ pc' = StagePc(RunOrder[1])
                   /\ idx' = 1
                   /\ log' = entered \o <<EvReturn("detect_svg_converter"),
                                          EvOut("Using SVG converter", name)>>
              ELSE /\ svg_converter' = svg_converter
                   /\ pc' = pc
                   /\ idx' = idx
                   /\ log' = entered
  /\ UNCHANGED <<argv, svg, avail, background_color, fsvars, exc,
                 exit_status, img, res, temp_pinned>>

\* return 'magick' after the loop
DetectDefault ==
  /\ pc = "detect"
  /\ Len(probed) = Len(converters)
  /\ svg_converter' = "magick"
  /\ pc' = StagePc(RunOrder[1])
  /\ idx' = 1
  /\ log' = log \o <<EvReturn("detect_svg_converter"),
                     EvOut("Using SVG converter", "magick")>>
  /\ UNCHANGED <<argv, svg, avail, probed, background_color, fsvars, exc,
                 exit_status, img, res, temp_pinned>>


\* ------------------------------------------------------------------------
\* run: setup and the Android stage
\* ------------------------------------------------------------------------

\* an exception raised inside the try block of run: control goes to the
\* finally clause
RaiseInRun(entered, method, what) ==
  /\ pc' = "cleanup"
  /\ exc' = what
  /\ idx' = idx
  /\ log' = Append(entered, EvRaise(method, what))

\* what subprocess.run(cmd, check=True, capture_output=True) does: the
\* selected converter may succeed or exit with an error; a converter whose
\* version check raised is started all the same, and may also be missing
\* (FileNotFoundError) or not executable (PermissionError, an OSError)
RasterOutcomes ==
  IF CheckSucceeds(svg_converter)
    THEN {"ok", "CalledProcessError"}
    ELSE {"ok", "CalledProcessError", "FileNotFoundError", "OSError"}

WritePng(pngs, path, data) ==
  [q \in DOMAIN pngs \cup {path} |-> IF q = path THEN data ELSE pngs[q]]

WriteFile(fs, path, content) ==
  [q \in DOMAIN fs \cup {path} |-> IF q = path THEN content ELSE fs[q]]

\* What the two mkdir calls of setup can do: both succeed, or the one named
\* raises OSError.  mkdir(exist_ok=True) on a regular file raises
\* FileExistsError.
SetupOutcomes ==
  IF temp_dir \in DOMAIN files
    THEN {"temp_dir"}
    ELSE {"ok", "temp_dir", "linux_icons"}

\* setup: the two mkdir calls, either of which may raise OSError
Setup ==
  /\ pc = "setup"
  /\ \E outcome \in SetupOutcomes :
       /\ dirs' = CASE outcome = "ok" -> dirs \cup {temp_dir, linux_icons}
                    [] outcome = "temp_dir" -> dirs
                    [] outcome = "linux_icons" -> dirs \cup {temp_dir}
       /\ IF outcome = "ok"
            THEN /\ pc' = AfterStage("setup")
                 /\ idx' = 1
                 /\ exc' = exc
                 /\ log' = log \o <<EvCall("setup"), EvReturn("setup")>>
            ELSE RaiseInRun(Append(log, EvCall("setup")), "setup", "OSError")
  /\ UNCHANGED <<argv, svg, avail, probed, svg_converter, background_color,
                 temp_files, png, colors_xml, files, launch_bg, exit_status,
                 img, res, temp_pinned>>

\* One call of create_white_foreground or create_monochrome_icon, or one
\* iteration of the loop of create_notification_icon: rasterize at
\* int(size * 2), crop to the bounding box, resize, paste, recolor, save,
\* unlink the temporary PNG.
Composite(method, size, out_dir, out_path, temp_png, entered, next_pc, next_idx) ==
  \E outcome \in RasterOutcomes :
    LET render_size == 2 * size
        content == ContentDims(svg, render_size)
        new == NewDims(MethodTarget(method, size), content[1], content[2])
    IN  /\ dirs' = dirs \cup {out_dir}
        /\ IF outcome # "ok"
             THEN /\ temp_files' = temp_files
                  /\ png' = png
                  /\ RaiseInRun(entered, method, outcome)
           ELSE IF BBoxIsNone(RenderAt(svg, render_size))
             THEN /\ temp_files' = temp_files \cup {TempRender(render_size)}
                  /\ png' = png
                  /\ IF method = "create_notification_icon"
                       THEN /\ pc' = next_pc
                            /\ idx' = next_idx
                            /\ exc' = exc
                            /\ log' = entered
                       ELSE RaiseInRun(entered, method, "UnboundLocalError")
           ELSE IF new[1] < 1 \/ new[2] < 1
             THEN /\ temp_files' =
                       temp_files \cup {TempRender(render_size), temp_png}
                  /\ png' = png
                  /\ RaiseInRun(entered, method, "ValueError")
           ELSE /\ temp_files' = temp_files \cup {TempRender(render_size)}
                /\ png' = WritePng(png, out_path,
                                   MethodRecolor(method, svg.canvas))
                /\ pc' = next_pc
                /\ idx' = next_idx
                /\ exc' = exc
                /\ log' = Append(entered, EvWrite(out_path))

CreateWhiteForeground ==
  /\ pc = "android_fg"
  /\ LET density == AndroidOrder[idx]
     IN  Composite("create_white_foreground", ANDROID_SIZES[density],
                   MipmapDir(density), ForegroundPath(density),
                   "temp_" \o density \o ".png",
                   log \o (IF idx = 1 THEN <<EvCall("generate_android_icons")>>
                                      ELSE << >>)
                       \o <<EvCall("create_white_foreground")>>,
                   "android_mono", idx)
  /\ UNCHANGED <<argv, svg, avail, probed, svg_converter, background_color,
                 colors_xml, files, launch_bg, exit_status, img, res, temp_pinned>>

CreateMonochromeIcon ==
  /\ pc = "android_mono"
  /\ LET density == AndroidOrder[idx]
         last == idx = Len(AndroidOrder)
     IN  Composite("create_monochrome_icon", ANDROID_SIZES[density],
                   MipmapDir(density), MonochromePath(density),
                   "mono_temp_" \o density \o ".png",
                   Append(log, EvCall("create_monochrome_icon")),
                   IF last THEN "android_notif" ELSE "android_fg",
                   IF last THEN 1 ELSE idx + 1)
  /\ UNCHANGED <<argv, svg, avail, probed, svg_converter, background_color,
                 colors_xml, files, launch_bg, exit_status, img, res, temp_pinned>>

\* one iteration of the loop of create_notification_icon
CreateNotificationIcon ==
  /\ pc = "android_notif"
  /\ LET density == AndroidOrder[idx]
         last == idx = Len(AndroidOrder)
     IN  Composite("create_notification_icon", notification_sizes[density],
                   DrawableDir(density), NotificationPath(density),
                   "notif_" \o ToString(notification_sizes[density]) \o ".png",
                   log \o (IF idx = 1
                             THEN <<EvCall("create_notification_icon")>>
                             ELSE << >>),
                   IF last THEN "android_bg" ELSE "android_notif",
                   IF last THEN 1 ELSE idx + 1)
  /\ UNCHANGED <<argv, svg, avail, probed, svg_converter, background_color,
                 colors_xml, files, launch_bg, exit_status, img, res, temp_pinned>>

CreateBackgroundResources ==
  /\ pc = "android_bg"
  /\ dirs' = dirs \cup {Join(android_res, "values")}
  /\ colors_xml' = ExistingFile(BackgroundResources(colors_xml, background_color))
  /\ log' = log \o <<EvCall("create_background_resources"), EvWrite(ColorsPath)>>
  /\ pc' = "android_xml"
  /\ UNCHANGED <<argv, svg, avail, probed, svg_converter, background_color,
                 temp_files, png, files, launch_bg, exc, exit_status, idx, img, res, temp_pinned>>

AdaptiveXmlPath(k, name) == Join(Join(android_res, AnydpiDirs[k]), name)

CreateAdaptiveIconXml ==
  /\ pc = "android_xml"
  /\ dirs' = dirs \cup {Join(android_res, AnydpiDirs[k]) : k \in DOMAIN AnydpiDirs}
  /\ files' =
       WriteFile(WriteFile(WriteFile(WriteFile(files,
         AdaptiveXmlPath(1, "ic_launcher.xml"), "adaptive-icon"),
         AdaptiveXmlPath(1, "ic_launcher_round.xml"), "adaptive-icon"),
         AdaptiveXmlPath(2, "ic_launcher.xml"), "adaptive-icon+monochrome"),
         AdaptiveXmlPath(2, "ic_launcher_round.xml"), "adaptive-icon+monochrome")
  /\ log' = log \o <<EvCall("create_adaptive_icon_xml"),
                     EvWrite(AdaptiveXmlPath(1, "ic_launcher.xml")),
                     EvWrite(AdaptiveXmlPath(1, "ic_launcher_round.xml")),
                     EvWrite(AdaptiveXmlPath(2, "ic_launcher.xml")),
                     EvWrite(AdaptiveXmlPath(2, "ic_launcher_round.xml"))>>
  /\ pc' = "android_launch"
  /\ UNCHANGED <<argv, svg, avail, probed, svg_converter, background_color,
                 temp_files, png, colors_xml, launch_bg, exc, exit_status,
                 idx, img, res, temp_pinned>>

LaunchPath(d) == Join(Join(android_res, d), "launch_background.xml")

\* create_launch_background, the last call of generate_android_icons
CreateLaunchBackground ==
  /\ pc = "android_launch"
  /\ launch_bg' =
       [d \in DOMAIN launch_bg |->
          IF Join(android_res, d) \in dirs /\ launch_bg[d].exists
            THEN ExistingFile([i \in DOMAIN launch_bg[d].content |->
                                 LaunchRefAfter(launch_bg[d].content[i])])
            ELSE launch_bg[d]]
  /\ log' = log \o <<EvCall("create_launch_background")>>
                \o SelectSeq(<<EvWrite(LaunchPath(LaunchDirs[1])),
                               EvWrite(LaunchPath(LaunchDirs[2]))>>,
                             LAMBDA e : \E d \in DOMAIN launch_bg :
                               /\ e = EvWrite(LaunchPath(d))
                               /\ Join(android_res, d) \in dirs
                               /\ launch_bg[d].exists)
                \o <<EvReturn("generate_android_icons")>>
  /\ pc' = AfterStage("generate_android_icons")
  /\ idx' = 1
  /\ UNCHANGED <<argv, svg, avail, probed, svg_converter, background_color,
                 dirs, temp_files, png, colors_xml, files, exc, exit_status,
                 img, res, temp_pinned>>


\* ------------------------------------------------------------------------
\* run: the Linux and macOS stages, verification, cleanup; main's exit
\* ------------------------------------------------------------------------

\* one iteration of the loop of generate_linux_icons
GenerateLinuxIcon ==
  /\ pc = "linux_icon"
  /\ LET size == LINUX_SIZES[idx]
         last == idx = Len(LINUX_SIZES)
         entered == log \o (IF idx = 1 THEN <<EvCall("generate_linux_icons")>>
                                       ELSE << >>)
     IN  \E outcome \in RasterOutcomes :
           IF outcome # "ok"
             THEN /\ temp_files' = temp_files
                  /\ png' = png
                  /\ RaiseInRun(entered, "convert_svg_to_png_native", outcome)
             ELSE /\ temp_files' = temp_files \cup {TempRender(size)}
                  /\ png' = WritePng(WritePng(png, LinuxPath(size),
                                              RenderAt(svg, size)),
                                     FlatpakPath(size), RenderAt(svg, size))
                  /\ log' = entered \o <<EvWrite(LinuxPath(size)),
                                          EvWrite(FlatpakPath(size))>>
                  /\ pc' = IF last THEN "linux_tail" ELSE "linux_icon"
                  /\ idx' = IF last THEN 1 ELSE idx + 1
                  /\ exc' = exc
  /\ UNCHANGED <<argv, svg, avail, probed, svg_converter, background_color,
                 dirs, colors_xml, files, launch_bg, exit_status, img, res, temp_pinned>>

\* the rest of generate_linux_icons: default icons, SVG copies, desktop file
GenerateLinuxTail ==
  /\ pc = "linux_tail"
  /\ png' = WritePng(WritePng(png, Join(linux_icons, "nhac.png"),
                              png[LinuxPath(256)]),
                     Join(linux_icons, "dev.myyc.nhac.png"), png[LinuxPath(256)])
  /\ files' = WriteFile(WriteFile(WriteFile(files,
                Join(linux_icons, "nhac.svg"), "svg"),
                Join(linux_icons, "dev.myyc.nhac.svg"), "svg"),
                DesktopPath, "desktop-entry")
  /\ log' = log \o <<EvWrite(Join(linux_icons, "nhac.png")),
                     EvWrite(Join(linux_icons, "dev.myyc.nhac.png")),
                     EvWrite(Join(linux_icons, "nhac.svg")),
                     EvWrite(Join(linux_icons, "dev.myyc.nhac.svg")),
                     EvWrite(DesktopPath),
                     EvReturn("generate_linux_icons")>>
  /\ pc' = AfterStage("generate_linux_icons")
  /\ idx' = 1
  /\ UNCHANGED <<argv, svg, avail, probed, svg_converter, background_color,
                 dirs, temp_files, colors_xml, launch_bg, exc, exit_status,
                 img, res, temp_pinned>>

\* one iteration of the loop of generate_macos_icons (the mkdir comes
\* before the first)
GenerateMacosIcon ==
  /\ pc = "macos_icon"
  /\ LET size == MACOS_SIZES[idx]
         last == idx = Len(MACOS_SIZES)
         entered == log \o (IF idx = 1 THEN <<EvCall("generate_macos_icons")>>
                                       ELSE << >>)
     IN  /\ dirs' = dirs \cup {macos_assets}
         /\ \E outcome \in RasterOutcomes :
              IF outcome # "ok"
                THEN /\ temp_files' = temp_files
                     /\ png' = png
                     /\ RaiseInRun(entered, "convert_svg_to_png_native", outcome)
                ELSE /\ temp_files' = temp_files \cup {TempRender(size)}
                     /\ png' = WritePng(png, MacosPath(size), RenderAt(svg, size))
                     /\ log' = entered \o <<EvWrite(MacosPath(size))>>
                               \o (IF last
                                     THEN <<EvReturn("generate_macos_icons")>>
                                     ELSE << >>)
                     /\ pc' = IF last THEN AfterStage("generate_macos_icons")
                                      ELSE "macos_icon"
                     /\ idx' = IF last THEN 1 ELSE idx + 1
                     /\ exc' = exc
  /\ UNCHANGED <<argv, svg, avail, probed, svg_converter, background_color,
                 colors_xml, files, launch_bg, exit_status, img, res, temp_pinned>>

\* verify_results raising when a check finds a problem
VerifyResultsStrict ==
  /\ pc = "verify"
  /\ LET report == VerifyReport(png, colors_xml, background_color)
         ok == \A i \in DOMAIN report :
                 report[i][3] \in {"White", "ok", "Created"}
     IN  IF ok
           THEN /\ pc' = AfterStage("verify_results")
                /\ exc' = exc
                /\ log' = log \o <<EvCall("verify_results")>> \o report
                              \o <<EvReturn("verify_results")>>
           ELSE /\ pc' = "cleanup"
                /\ exc' = "AssertionError"
                /\ log' = log \o <<EvCall("verify_results")>> \o report
                              \o <<EvRaise("verify_results", "AssertionError")>>
  /\ UNCHANGED <<argv, svg, avail, probed, svg_converter, background_color,
                 fsvars, exit_status, idx, img, res, temp_pinned>>

\* verify_results: reads the sample files and prints
VerifyResults ==
  /\ pc = "verify"
  /\ pc' = AfterStage("verify_results")
  /\ log' = log \o <<EvCall("verify_results")>>
                \o VerifyReport(png, colors_xml, background_color)
                \o <<EvReturn("verify_results")>>
  /\ UNCHANGED <<argv, svg, avail, probed, svg_converter, background_color,
                 fsvars, exc, exit_status, idx, img, res, temp_pinned>>

\* the prints that end the try block
Banner ==
  /\ pc = "banner"
  /\ pc' = "cleanup"
  /\ log' = Append(log, EvOut("banner", "All icons generated successfully!"))
  /\ UNCHANGED <<argv, svg, avail, probed, svg_converter, background_color,
                 fsvars, exc, exit_status, idx, img, res, temp_pinned>>

\* cleanup returns: run returns or re-raises the exception of the try block
CleanupReturns ==
  /\ log' = Append(log, EvCall("cleanup"))
  /\ exc' = exc
  /\ pc' = IF exc = "none" THEN "main_return" ELSE "main_except"

\* shutil.rmtree raises: the exception leaves the finally clause in place of
\* the one of the try block
CleanupRaises ==
  /\ log' = log \o <<EvCall("cleanup"), EvRaise("cleanup", "OSError")>>
  /\ exc' = "OSError"
  /\ pc' = "main_except"

\* cleanup run only when the try block ended without an exception
CleanupOnSuccess ==
  /\ pc = "cleanup"
  /\ IF exc # "none"
       THEN dirs' = dirs /\ temp_files' = temp_files /\ CleanupReturns
     ELSE IF temp_dir \in dirs /\ ~temp_pinned
       THEN dirs' = dirs \ {temp_dir} /\ temp_files' = {} /\ CleanupReturns
     ELSE IF temp_dir \in dirs
       THEN dirs' = dirs /\ temp_files' = {} /\ CleanupRaises
     ELSE IF temp_dir \in DOMAIN files
       THEN dirs' = dirs /\ temp_files' = temp_files /\ CleanupRaises
     ELSE dirs' = dirs /\ temp_files' = temp_files /\ CleanupReturns
  /\ UNCHANGED <<argv, svg, avail, probed, svg_converter, background_color,
                 png, colors_xml, files, launch_bg, exit_status, idx, img, res, temp_pinned>>

\* The finally clause of run: cleanup, then return or re-raise.
\* temp_dir.exists() is true for a directory and for a regular file;
\* rmtree removes the entries of a directory and then the directory, and
\* raises when the parent does not permit that; on a regular file it raises
\* NotADirectoryError.
Cleanup ==
  /\ pc = "cleanup"
  /\ IF temp_dir \in dirs /\ ~temp_pinned
       THEN dirs' = dirs \ {temp_dir} /\ temp_files' = {} /\ CleanupReturns
     ELSE IF temp_dir \in dirs
       THEN dirs' = dirs /\ temp_files' = {} /\ CleanupRaises
     ELSE IF temp_dir \in DOMAIN files
       THEN dirs' = dirs /\ temp_files' = temp_files /\ CleanupRaises
     ELSE dirs' = dirs /\ temp_files' = temp_files /\ CleanupReturns
  /\ UNCHANGED <<argv, svg, avail, probed, svg_converter, background_color,
                 png, colors_xml, files, launch_bg, exit_status, idx, img, res, temp_pinned>>

\* main: the except clauses call sys.exit(1); otherwise main returns
MainExit ==
  /\ pc \in {"main_return", "main_except"}
  /\ exit_status' = IF pc = "main_except" THEN 1 ELSE 0
  /\ log' = IF pc = "main_except" THEN Append(log, EvOut("Error", exc)) ELSE log
  /\ pc' = "exited"
  /\ UNCHANGED <<argv, svg, avail, probed, svg_converter, background_color,
                 fsvars, exc, idx, img, res, temp_pinned>>

Next ==
  \/ InitCheckSvg
  \/ ExtractSvgColor
  \/ DetectProbe
  \/ DetectDefault
  \/ Setup
  \/ CreateWhiteForeground
  \/ CreateMonochromeIcon
  \/ CreateNotificationIcon
  \/ CreateBackgroundResources
  \/ CreateAdaptiveIconXml
  \/ CreateLaunchBackground
  \/ GenerateLinuxIcon
  \/ GenerateLinuxTail
  \/ GenerateMacosIcon
  \/ VerifyResults
  \/ Banner
  \/ Cleanup
  \/ MainExit

Spec == Init /\ [][Next]_vars

\* ------------------------------------------------------------------------
\* The compositing methods on their own
\* ------------------------------------------------------------------------

InitImageOnly ==
  /\ InitImage
  /\ res = IdleResources
  /\ pc = "image"
  /\ argv = ""
  /\ svg = MissingSvg
  /\ avail = [c \in ConverterNames |-> FALSE]
  /\ probed = << >>
  /\ svg_converter = "unset"
  /\ background_color = << >>
  /\ dirs = {}
  /\ temp_files = {}
  /\ png = [path \in {} |-> NoCanvas]
  /\ colors_xml = AbsentFile
  /\ files = [path \in {} |-> ""]
  /\ launch_bg = [d \in {"drawable", "drawable-v21"} |-> AbsentFile]
  /\ log = << >>
  /\ exc = "none"
  /\ exit_status = -1
  /\ idx = 0
  /\ temp_pinned = FALSE

NextImage ==
  \/ Resize /\ UNCHANGED <<res, pipevars>>
  \/ Paste /\ UNCHANGED <<res, pipevars>>
  \/ Recolor /\ UNCHANGED <<res, pipevars>>

SpecImage == InitImageOnly /\ [][NextImage]_vars


\* ------------------------------------------------------------------------
\* create_background_resources on its own, called twice on one file
\* ------------------------------------------------------------------------

\* Entries a colors.xml may hold before the run: another colour, the
\* launcher background as #RRGGBB, as #RGB and as #AARRGGBB, a colour whose
\* name merely contains 'ic_launcher_background' and one whose value does.
ResourceEntrySamples ==
  { ColorTok("primary", <<"#", "1", "1", "2", "2", "3", "3">>),
    ColorTok("ic_launcher_background", <<"#", "F", "F", "F", "F", "F", "F">>),
    ColorTok("ic_launcher_background", <<"#", "F", "F", "F">>),
    ColorTok("ic_launcher_background",
             <<"#", "F", "F", "3", "A", "7", "B", "E", "0">>),
    ColorTok("ic_launcher_background_dark",
             <<"#", "0", "0", "0", "0", "0", "0">>),
    ColorTok("splash",
             <<"@", "c", "o", "l", "o", "r", "/", "i", "c", "_", "l", "a",
               "u", "n", "c", "h", "e", "r", "_", "b", "a", "c", "k", "g",
               "r", "o", "u", "n", "d">>) }

ResourceBodies == UNION {[1 .. n -> ResourceEntrySamples] : n \in 0 .. MaxEntries}

\* colors.xml before the call: absent, or a header, some entries and the
\* closing tag (which a damaged file may lack)
PriorColorsFiles ==
  {AbsentFile}
    \cup {ExistingFile(<<HeaderTok>> \o body \o close) :
            body \in ResourceBodies, close \in {<<CloseTok>>, << >>}}

\* values self.background_color can take: the default, an extracted hex
\* colour, and the seven digits an out of range rgb() is formatted to
BackgroundColorSamples ==
  { DEFAULT_BACKGROUND,
    <<"#", "F", "F", "0", "0", "0", "0">>,
    <<"#", "1", "2", "C", "0", "0", "0", "0">> }

InitResources ==
  \E before \in PriorColorsFiles, color \in BackgroundColorSamples :
    res = [ at |-> "before", before |-> before, color |-> color,
            after |-> << >>, again |-> << >> ]

\* the first call of create_background_resources
CallBackgroundResources ==
  /\ res.at = "before"
  /\ res' = [res EXCEPT !.after = BackgroundResources(res.before, res.color),
                        !.at = "called"]

\* a second call, on the file the first one left
CallBackgroundResourcesAgain ==
  /\ res.at = "called"
  /\ res' = [res EXCEPT
              !.again = BackgroundResources(ExistingFile(res.after), res.color),
              !.at = "called twice"]

InitResourcesOnly ==
  /\ InitResources
  /\ img = IdleImage
  /\ pc = "resources"
  /\ argv = ""
  /\ svg = MissingSvg
  /\ avail = [c \in ConverterNames |-> FALSE]
  /\ probed = << >>
  /\ svg_converter = "unset"
  /\ background_color = << >>
  /\ dirs = {}
  /\ temp_files = {}
  /\ png = [path \in {} |-> NoCanvas]
  /\ colors_xml = AbsentFile
  /\ files = [path \in {} |-> ""]
  /\ launch_bg = [d \in {"drawable", "drawable-v21"} |-> AbsentFile]
  /\ log = << >>
  /\ exc = "none"
  /\ exit_status = -1
  /\ idx = 0
  /\ temp_pinned = FALSE

NextResources ==
  \/ CallBackgroundResources /\ UNCHANGED <<img, pipevars>>
  \/ CallBackgroundResourcesAgain /\ UNCHANGED <<img, pipevars>>

SpecResources == InitResourcesOnly /\ [][NextResources]_vars

\* ------------------------------------------------------------------------
\* Properties
\* ------------------------------------------------------------------------

HasEvent(e) == \E i \in DOMAIN log : log[i] = e

\* the paths written before position j of the log
WrittenBefore(j) == {log[i][2] : i \in {k \in 1 .. j - 1 : log[k][1] = "write"}}

PipelineStages ==
  <<"detect_svg_converter", "setup", "generate_android_icons",
    "generate_linux_icons", "generate_macos_icons", "verify_results">>

StageCalls ==
  SelectSeq(log, LAMBDA e :
    e[1] = "call" /\ \E k \in DOMAIN PipelineStages : e[2] = PipelineStages[k])

\* The stage calls made so far are an initial part of: select the
\* rasterizer, setup, Android, Linux, macOS, verification; and when a stage
\* of run starts every earlier stage has returned and nothing has raised.
C1_StagesInOrder ==
  /\ Len(StageCalls) <= Len(PipelineStages)
  /\ \A k \in DOMAIN StageCalls : StageCalls[k] = EvCall(PipelineStages[k])
  /\ \A j \in DOMAIN log :
       \A k \in 2 .. Len(PipelineStages) :
         log[j] = EvCall(PipelineStages[k]) =>
           /\ \A m \in 1 .. k - 1 :
                \E i \in 1 .. j - 1 : log[i] = EvReturn(PipelineStages[m])
           /\ \A i \in 1 .. j - 1 : log[i][1] # "raise"
           /\ svg_converter # "unset"

\* svg_converter is assigned only by detect_svg_converter, once
C1_ConverterFixed ==
  /\ svg_converter # "unset" => svg_converter' = svg_converter
  /\ svg_converter' # svg_converter => pc = "detect"

\* C1: the tool is a linear pipeline.  The rasterizer is selected once,
\* during construction and before any stage of run; run executes setup,
\* Android, Linux, macOS generation and verification in that order, each at
\* most once, a stage starting only if every earlier one completed without
\* raising; the selected rasterizer never changes afterwards.
C1_LinearPipeline == [](C1_StagesInOrder) /\ [][C1_ConverterFixed]_vars

\* a run in which all six stages ran and main returned
C1_Witness ==
  /\ pc = "exited"
  /\ exit_status = 0
  /\ Len(StageCalls) = Len(PipelineStages)

\* C2 as claimed: for every combination of availability the selected
\* rasterizer is an available one.
C2_SelectedIsAvailable == svg_converter # "unset" => avail[svg_converter]

\* C2 as amended: when at least one converter is available the selected
\* one is available; when none is, 'magick' is selected although its
\* version check failed.
C2_SelectedIsAvailableOrDefault ==
  svg_converter # "unset" =>
    IF \E c \in ConverterNames : avail[c]
      THEN avail[svg_converter]
      ELSE svg_converter = "magick" /\ ~avail[svg_converter]

\* inkscape selected because rsvg-convert is not there
C2_Witness ==
  /\ svg_converter = "inkscape"
  /\ ~avail["rsvg-convert"]
  /\ avail["inkscape"]

\* C3, the step: verify_results changes no file or directory, raises
\* nothing and hands over to the success banner.
C3_VerifyOnlyReports ==
  pc = "verify" /\ pc' # pc =>
    /\ fsvars' = fsvars
    /\ exc' = "none"
    /\ pc' = "banner"

\* C3, the outcome: a run that reached verification exits with status 0
\* after printing the success banner.
C3_RunSucceeds ==
  pc = "exited" /\ HasEvent(EvCall("verify_results")) =>
    /\ exit_status = 0
    /\ HasEvent(EvOut("banner", "All icons generated successfully!"))
    /\ HasEvent(EvReturn("verify_results"))

\* C3 as claimed: the verification pass reports but does not fail the run:
\* whatever verify_results finds, it only prints, modifies no output file,
\* and the run still completes as successful (banner printed, exit status
\* not 1).
C3_VerificationDoesNotFail ==
  [](C3_RunSucceeds) /\ [][C3_VerifyOnlyReports]_vars

\* C3, the outcome as the code has it: a run that reached verification
\* prints the success banner; it exits with status 1 exactly when cleanup
\* raised afterwards, and with status 0 otherwise.
C3_RunSucceedsUnlessCleanupRaises ==
  pc = "exited" /\ HasEvent(EvCall("verify_results")) =>
    /\ HasEvent(EvReturn("verify_results"))
    /\ HasEvent(EvOut("banner", "All icons generated successfully!"))
    /\ exit_status = IF HasEvent(EvRaise("cleanup", "OSError")) THEN 1 ELSE 0

\* C3 amended: whatever verify_results finds, it only prints, modifies no
\* file, raises nothing and hands over to the success banner; the process
\* then exits with status 0 unless cleanup raises.
C3_VerificationDoesNotFailByItself ==
  [](C3_RunSucceedsUnlessCleanupRaises) /\ [][C3_VerifyOnlyReports]_vars

\* a finished run whose verification found the foreground empty and the
\* background colour missing from colors.xml
C3_Witness ==
  /\ pc = "exited"
  /\ HasEvent(EvOut("Foreground", "empty"))
  /\ HasEvent(EvOut("Monochrome", "Empty"))
  /\ HasEvent(EvOut("Background color", "Not set correctly"))

\* C4: the per-pixel recolor preserves alpha.  Every output pixel has the
\* alpha of the canvas pixel; a pixel with alpha > 0 becomes white in the
\* foreground and the notification icon and black in the monochrome icon;
\* a pixel with alpha 0 stays fully transparent.
C4_RecolorPreservesAlpha ==
  img.at = "saved" =>
    /\ DOMAIN img.data = DOMAIN img.canvas
    /\ \A i \in DOMAIN img.canvas :
         LET in == img.canvas[i]
             out == img.data[i]
             v == IF img.method = "create_monochrome_icon" THEN 0 ELSE 255
         IN  /\ out.a = in.a
             /\ in.a > 0 => out.r = v /\ out.g = v /\ out.b = v
             /\ in.a = 0 => out.a = 0

\* a saved monochrome icon whose canvas had a half transparent pixel and a
\* transparent pixel that carried colour
C4_Witness ==
  /\ img.at = "saved"
  /\ img.method = "create_monochrome_icon"
  /\ \E i \in DOMAIN img.canvas : img.canvas[i].a = 64
  /\ \E i \in DOMAIN img.canvas : img.canvas[i].a = 0 /\ img.canvas[i].r = 1

\* C5 as claimed: for every content of width w >= 1 and height h >= 1 the
\* new size has both sides in 1 .. target_size, the longer side equal to
\* target_size and the shorter side equal to
\* floor(target_size * shorter / longer).
C5_ResizeFitsSafeZone ==
  img.at \in {"resized", "ValueError"} =>
    LET t == img.target_size
        long == Max(img.w, img.h)
        short == IF img.w > img.h THEN img.h ELSE img.w
        new_long == IF img.w > img.h THEN img.new_w ELSE img.new_h
        new_short == IF img.w > img.h THEN img.new_h ELSE img.new_w
    IN  /\ 1 <= img.new_w /\ img.new_w <= t
        /\ 1 <= img.new_h /\ img.new_h <= t
        /\ new_long = t
        /\ new_short = (t * short) \div long

\* C6 as claimed: in all three methods the left and right margins differ
\* by at most 1, the top and bottom margins differ by at most 1, and the
\* pasted rectangle lies inside the canvas.
C6_PasteCentered ==
  img.at \in {"pasted", "saved"} =>
    LET left == img.x
        right == img.size - (img.x + img.new_w)
        top == img.y
        bottom == img.size - (img.y + img.new_h)
    IN  /\ left - right \in -1 .. 1
        /\ top - bottom \in -1 .. 1
        /\ left >= 0 /\ right >= 0 /\ top >= 0 /\ bottom >= 0

\* C6 as amended: the pasted rectangle lies inside the canvas and is
\* centered vertically in all three methods; horizontally it is centered in
\* create_notification_icon, and shifted right of the centered position by
\* int(size * ICON_OFFSET_X) pixels in create_white_foreground and
\* create_monochrome_icon.
C6_PasteCenteredWithOffset ==
  img.at \in {"pasted", "saved"} =>
    LET shift == IF img.method = "create_notification_icon"
                   THEN 0 ELSE (img.size * 3) \div 100
        left == img.x - shift
        right == img.size - (img.x + img.new_w) + shift
        top == img.y
        bottom == img.size - (img.y + img.new_h)
    IN  /\ left - right \in -1 .. 0
        /\ top - bottom \in -1 .. 0
        /\ img.x >= 0 /\ img.x + img.new_w <= img.size
        /\ img.y >= 0 /\ img.y + img.new_h <= img.size

\* a foreground pasted with an odd amount of free space on both axes
C6_Witness ==
  /\ img.at = "pasted"
  /\ img.method = "create_white_foreground"
  /\ (img.size - img.new_w) % 2 = 1
  /\ (img.size - img.new_h) % 2 = 1
  /\ img.x > (img.size - img.new_w) \div 2

AndroidPngs ==
  UNION {{ForegroundPath(d), MonochromePath(d), NotificationPath(d)} :
           d \in Densities}

LinuxPngs ==
  UNION {{LinuxPath(LINUX_SIZES[k]), FlatpakPath(LINUX_SIZES[k])} :
           k \in DOMAIN LINUX_SIZES}
    \cup {Join(linux_icons, "nhac.png"), Join(linux_icons, "dev.myyc.nhac.png")}

MacosPngs == {MacosPath(MACOS_SIZES[k]) : k \in DOMAIN MACOS_SIZES}

AndroidConfigFiles ==
  {ColorsPath}
    \cup {AdaptiveXmlPath(k, n) :
            k \in DOMAIN AnydpiDirs, n \in {"ic_launcher.xml", "ic_launcher_round.xml"}}

ConfigFiles == AndroidConfigFiles \cup {DesktopPath}

\* C7 as claimed: no derived config file is written before every raster
\* PNG output (Android, Linux and macOS) has been written, and verification
\* starts only after all config files are written.
C7_ConfigAfterAllRaster ==
  \A j \in DOMAIN log :
    /\ log[j][1] = "write" /\ log[j][2] \in ConfigFiles =>
         AndroidPngs \cup LinuxPngs \cup MacosPngs \subseteq WrittenBefore(j)
    /\ log[j] = EvCall("verify_results") => ConfigFiles \subseteq WrittenBefore(j)

\* the Android PNGs every run that completes the stage writes
LauncherPngs ==
  UNION {{ForegroundPath(d), MonochromePath(d)} : d \in Densities}

\* the notification icons create_notification_icon saves: those whose
\* render at twice the size has a bounding box; the others are skipped
\* without raising
NotificationPngs ==
  {NotificationPath(d) :
     d \in {e \in Densities :
              ~BBoxIsNone(RenderAt(svg, 2 * notification_sizes[e]))}}

\* the Android raster work is over at position j of the log: every
\* launcher PNG and every notification PNG that is not skipped has been
\* written, and no Android PNG is written from j on
AndroidRasterDoneBefore(j) ==
  /\ LauncherPngs \cup NotificationPngs \subseteq WrittenBefore(j)
  /\ WrittenBefore(j) \cap AndroidPngs = LauncherPngs \cup NotificationPngs
  /\ \A k \in j .. Len(log) :
       log[k][1] = "write" => log[k][2] \notin AndroidPngs

\* C7 as amended: a derived config file is written after the raster
\* outputs of its own platform stage: colors.xml and the adaptive-icon XML
\* files after every Android PNG the run writes (all foreground and
\* monochrome PNGs, and each notification PNG whose render is not blank)
\* and before any Linux or macOS PNG, nhac.desktop after those and every
\* Linux PNG and before any macOS PNG; verification starts only after all
\* config files and all these PNGs are written.
C7_ConfigAfterOwnStageRaster ==
  \A j \in DOMAIN log :
    /\ log[j][1] = "write" /\ log[j][2] \in AndroidConfigFiles =>
         /\ AndroidRasterDoneBefore(j)
         /\ WrittenBefore(j) \cap (LinuxPngs \cup MacosPngs) = {}
    /\ log[j] = EvWrite(DesktopPath) =>
         /\ AndroidRasterDoneBefore(j)
         /\ LinuxPngs \subseteq WrittenBefore(j)
         /\ AndroidConfigFiles \subseteq WrittenBefore(j)
         /\ WrittenBefore(j) \cap MacosPngs = {}
    /\ log[j] = EvCall("verify_results") =>
         /\ AndroidRasterDoneBefore(j)
         /\ ConfigFiles \cup LinuxPngs \cup MacosPngs \subseteq WrittenBefore(j)

\* verification has started, after the desktop entry and the macOS icons,
\* in a run that skipped the smallest notification icon and saved the
\* largest
C7_Witness ==
  /\ HasEvent(EvCall("verify_results"))
  /\ HasEvent(EvWrite(DesktopPath))
  /\ HasEvent(EvWrite(ColorsPath))
  /\ MacosPath(1024) \in DOMAIN png
  /\ NotificationPath("mdpi") \notin DOMAIN png
  /\ NotificationPath("xxxhdpi") \in DOMAIN png

\* C8, the state: with the SVG missing nothing is extracted, probed or
\* selected, only __init__ is entered, and the process exits with status 1.
C8_NothingStarted ==
  ~svg.exists =>
    /\ background_color = << >>
    /\ svg_converter = "unset"
    /\ probed = << >>
    /\ pc \in {"init", "main_except", "exited"}
    /\ \A i \in DOMAIN log :
         log[i] \in {EvCall("__init__"),
                     EvRaise("__init__", "FileNotFoundError"),
                     EvOut("Error", "FileNotFoundError")}
    /\ pc # "init" => exc = "FileNotFoundError"
    /\ pc = "exited" => exit_status = 1

\* C8, the steps: with the SVG missing no directory or file is created,
\* modified or removed.
C8_NothingTouched == ~svg.exists => fsvars' = fsvars

\* C8: if the SVG source path (argument or default) does not exist,
\* construction raises FileNotFoundError before colour extraction,
\* rasterizer detection, setup or any write; main exits with status 1 and
\* no directory or file has been created, modified or removed.
C8_MissingSvgFailsEarly == [](C8_NothingStarted) /\ [][C8_NothingTouched]_vars

\* the default SVG is missing and the process has exited
C8_Witness ==
  /\ ~svg.exists
  /\ argv = ""
  /\ pc = "exited"
  /\ exit_status = 1

\* C9: detect_svg_converter returns the highest-priority converter whose
\* check succeeded under rsvg-convert > inkscape > magick, probes no
\* lower-priority converter after a success, and returns 'magick' when no
\* check succeeds.
C9_BestAvailableConverter ==
  LET order == <<"rsvg-convert", "inkscape", "magick">>
      ok == {k \in DOMAIN order : avail[order[k]]}
      best == CHOOSE k \in ok : \A m \in ok : k <= m
  IN  /\ \A i \in DOMAIN probed :
           /\ i <= Len(order)
           /\ probed[i] = order[i]
           /\ i < Len(probed) => ~avail[probed[i]]
      /\ svg_converter # "unset" =>
           IF ok # {}
             THEN svg_converter = order[best] /\ Len(probed) = best
             ELSE svg_converter = "magick" /\ probed = order

\* inkscape selected with magick available too and never probed
C9_Witness ==
  /\ svg_converter = "inkscape"
  /\ avail["magick"]
  /\ probed = <<"rsvg-convert", "inkscape">>

\* C10, the state: once run has ended, cleanup has executed and the
\* temp_icons directory does not exist; after a failure main exits with
\* status 1.
C10_TempRemoved ==
  pc \in {"main_return", "main_except", "exited"} /\ HasEvent(EvCall("setup")) =>
    /\ HasEvent(EvCall("cleanup"))
    /\ temp_dir \notin dirs
    /\ temp_files = {}
    /\ pc = "exited" /\ exc # "none" => exit_status = 1

\* C10, the steps: no output is ever removed, and a step that raises, the
\* cleanup and the exit leave the outputs written so far as they are.
C10_NoRollback ==
  /\ DOMAIN png \subseteq DOMAIN png'
  /\ DOMAIN files \subseteq DOMAIN files'
  /\ colors_xml.exists => colors_xml'.exists
  /\ exc' # "none" =>
       /\ \A q \in DOMAIN png : png'[q] = png[q]
       /\ \A q \in DOMAIN files : files'[q] = files[q]
       /\ colors_xml' = colors_xml

\* C10 as claimed: temporary files never outlive a run.  On every
\* termination path of run (success, or an exception in setup, a generation
\* stage or verification) cleanup executes and temp_icons does not exist
\* when run returns or propagates the exception; outputs written before a
\* failure stay in place and main exits with status 1.
C10_TempNeverOutlivesRun == [](C10_TempRemoved) /\ [][C10_NoRollback]_vars

\* C10, the state as the code has it: once run has ended cleanup has
\* executed; when it did not raise, nothing exists at the path temp_icons;
\* when it raised, main exits with status 1 and the path may remain.
C10_TempRemovedUnlessCleanupRaises ==
  pc \in {"main_return", "main_except", "exited"} /\ HasEvent(EvCall("setup")) =>
    /\ HasEvent(EvCall("cleanup"))
    /\ ~HasEvent(EvRaise("cleanup", "OSError")) =>
         /\ temp_dir \notin dirs
         /\ temp_dir \notin DOMAIN files
         /\ temp_files = {}
    /\ HasEvent(EvRaise("cleanup", "OSError")) =>
         /\ exc = "OSError"
         /\ temp_dir \in dirs \/ temp_dir \in DOMAIN files
    /\ pc = "exited" /\ exc # "none" => exit_status = 1

\* C10 amended: on every termination path of run cleanup executes; unless
\* shutil.rmtree raises, nothing is left at temp_icons when run returns or
\* propagates the exception; outputs written before a failure stay in place
\* and main exits with status 1 after any exception, cleanup's included.
C10_TempRemovedUnlessCleanupFails ==
  [](C10_TempRemovedUnlessCleanupRaises) /\ [][C10_NoRollback]_vars

\* a rasterizer command failed after the first foreground was written
C10_Witness ==
  /\ pc = "exited"
  /\ exc = "CalledProcessError"
  /\ exit_status = 1
  /\ ForegroundPath("mdpi") \in DOMAIN png
  /\ temp_dir \notin dirs


\* the tokens of a colors.xml other than the launcher background entry
OtherContent(content) ==
  SelectSeq(content,
            LAMBDA tok : ~(tok.tag = "color" /\ tok.name = "ic_launcher_background"))

\* C11 as claimed: for every prior state of values/colors.xml (absent;
\* present without an ic_launcher_background entry; present with such an
\* entry of any value), after create_background_resources the file holds
\* the entry <color name="ic_launcher_background">B</color> with
\* B = background_color, so that verify_results finds the colour; all other
\* content of a pre-existing file is unchanged; a second call leaves the
\* file unchanged.
C11_BackgroundUpdatedOrAdded ==
  res.at \in {"called", "called twice"} =>
    /\ \E i \in DOMAIN res.after :
         res.after[i] = ColorTok("ic_launcher_background", res.color)
    /\ ColorInContent(res.after, res.color)
    /\ res.before.exists =>
         OtherContent(res.after) = OtherContent(res.before.content)
    /\ res.at = "called twice" => res.again = res.after

====
